---- MODULE Spec2Model ----
(***************************************************************************)
(* The aggregation gateway of openapi-servers (src/main.py): discovery of  *)
(* tool directories under servers/, dynamic loading, mounting under        *)
(* "/<dir>", the front-door endpoints and the merged OpenAPI schema with   *)
(* prefixed operation ids.                                                 *)
(*                                                                         *)
(* Strings are sequences of one-character strings, so that concatenation,  *)
(* split, substring search and sanitising are computed as Python does.     *)
(***************************************************************************)
EXTENDS Integers, Sequences, FiniteSets, TLC

VARIABLES fs, pc, todo, phase, use_package, strategy, executed, sysModules,
          results, mountIdx, mounted, routes, cached, builds, calls, response,
          tpc, tschema, tpending, tret

vars == <<fs, pc, todo, phase, use_package, strategy, executed, sysModules,
          results, mountIdx, mounted, routes, cached, builds, calls, response,
          tpc, tschema, tpending, tret>>

\* Python None, as a value that compares with records
None == [type |-> "NoneType"]

----------------------------------------------------------------------------
(* Characters and strings *)

Letters == {"a","b","c","d","e","f","g","h","i","j","k","l","m",
            "n","o","p","q","r","s","t","u","v","w","x","y","z"}
Digits == {"0","1","2","3","4","5","6","7","8","9"}

\* the characters the model uses, in code-point order
AsciiOrder == <<" ", "-", ".", "/", "0","1","2","3","4","5","6","7","8","9", "_",
                "a","b","c","d","e","f","g","h","i","j","k","l","m",
                "n","o","p","q","r","s","t","u","v","w","x","y","z">>

Ord(c) == CHOOSE i \in 1..Len(AsciiOrder) : AsciiOrder[i] = c

IsAlnum(c) == c \in Letters \cup Digits

\* Python str < str : lexicographic by code point
RECURSIVE StrLess(_, _)
StrLess(s, t) ==
  IF t = <<>> THEN FALSE
  ELSE IF s = <<>> THEN TRUE
  ELSE IF Head(s) = Head(t) THEN StrLess(Tail(s), Tail(t))
  ELSE Ord(Head(s)) < Ord(Head(t))

\* Python `sub in s`
Contains(s, sub) ==
  \E i \in 1..(Len(s) - Len(sub) + 1) : SubSeq(s, i, i + Len(sub) - 1) = sub

StartsWith(s, p) == Len(s) >= Len(p) /\ SubSeq(s, 1, Len(p)) = p

\* sorted(set of strings)
RECURSIVE SortedSeq(_)
SortedSeq(S) ==
  IF S = {} THEN <<>>
  ELSE LET m == CHOOSE x \in S : \A y \in S \ {x} : StrLess(x, y)
       IN <<m>> \o SortedSeq(S \ {m})

Put(f, k, v) == [x \in DOMAIN f \cup {k} |-> IF x = k THEN v ELSE f[x]]

\* _sanitize(name), main.py:46-47
_sanitize(name) ==
  [i \in 1..Len(name) |-> IF IsAlnum(name[i]) \/ name[i] = "_" THEN name[i] ELSE "_"]

----------------------------------------------------------------------------
(* The servers/ directory: the input of discovery *)

NameA == <<"a">>
NameAB == <<"a","_","_","b">>
NameHealth == <<"h","e","a","l","t","h">>
DirNames == {NameA, NameAB, NameHealth}

\* texts of main.py
TextPlain == <<"x">>
TextFromDot == <<"f","r","o","m"," ",".","c">>
TextImportDot == <<"i","m","p","o","r","t"," ",".">>
TextAbsolute == <<"f","r","o","m"," ","c">>

FromDot == <<"f","r","o","m"," ",".">>
ImportDot == <<"i","m","p","o","r","t"," ",".">>

\* route tables a tool's app declares: sub-path, method, handler name,
\* explicit operation_id (empty: none given, FastAPI derives the default one)
IdC == <<"c">>
IdBC == <<"b","_","_","c">>
SubX == <<"/","x">>
SubY == <<"/","y">>
NameF == <<"f">>
TableC == << [path |-> SubX, method |-> "GET", name |-> NameF, operation_id |-> IdC] >>
TableBC == << [path |-> SubX, method |-> "GET", name |-> NameF, operation_id |-> IdBC] >>
TableTwo == << [path |-> SubX, method |-> "GET", name |-> NameF, operation_id |-> IdC],
               [path |-> SubY, method |-> "GET", name |-> NameF, operation_id |-> <<>>] >>
Tables == {TableC, TableBC, TableTwo}

\* what executing main.py leaves in the module: no `app`, an `app` without a
\* `.router`, or a FastAPI app with a route table
Apps == {[kind |-> "none", routes |-> <<>>], [kind |-> "norouter", routes |-> <<>>]}
        \cup {[kind |-> "fastapi", routes |-> t] : t \in Tables}

NoEntry == [isDir |-> TRUE, hasMain |-> FALSE, hasInit |-> FALSE, readable |-> TRUE, content |-> TextPlain,
            initExec |-> "ok", mainExec |-> "ok", app |-> [kind |-> "none", routes |-> <<>>]]

GoodApp == [kind |-> "fastapi", routes |-> TableC]

\* entries of servers/: attributes the code never looks at in a given case
\* are fixed, so that each case appears once
DirConfigs ==
  {NoEntry, [NoEntry EXCEPT !.isDir = FALSE]}
  \cup {[NoEntry EXCEPT !.hasMain = TRUE, !.content = TextPlain, !.mainExec = e]
          : e \in {"Exception", "SystemExit"}}
  \cup {[NoEntry EXCEPT !.hasMain = TRUE, !.content = TextPlain, !.app = a] : a \in Apps}
  \cup {[NoEntry EXCEPT !.hasMain = TRUE, !.content = c, !.app = GoodApp]
          : c \in {TextAbsolute, TextFromDot, TextImportDot}}
  \cup {[NoEntry EXCEPT !.hasMain = TRUE, !.readable = FALSE, !.content = TextFromDot,
                        !.mainExec = "Exception"]}
  \cup {[NoEntry EXCEPT !.hasMain = TRUE, !.hasInit = TRUE, !.content = TextPlain, !.initExec = e]
          : e \in {"Exception", "SystemExit"}}
  \cup {[NoEntry EXCEPT !.hasMain = TRUE, !.hasInit = TRUE, !.content = TextFromDot, !.mainExec = e]
          : e \in {"Exception", "SystemExit"}}
  \cup {[NoEntry EXCEPT !.hasMain = TRUE, !.hasInit = TRUE, !.content = TextFromDot, !.app = a]
          : a \in {[kind |-> "none", routes |-> <<>>], GoodApp}}
  \cup {[NoEntry EXCEPT !.hasMain = TRUE, !.hasInit = TRUE, !.content = TextPlain, !.app = GoodApp]}

FileSystems == UNION {[S -> DirConfigs] : S \in SUBSET DirNames}

----------------------------------------------------------------------------
(* Loader, main.py:50-90 *)

Agg == <<"a","g","g","_">>
Tool == <<"t","o","o","l","_">>
DotMain == <<".","m","a","i","n">>
UnderMain == <<"_","m","a","i","n">>

\* the loaders' return value None
NoModule == [none |-> TRUE]

\* exec_module of a file of directory d: the file runs, then raises or not
ExecResult(ex, d, file, outcome) ==
  [executed |-> ex \cup {<<d, file>>}, raised |-> outcome]

\* _load_tool_as_package(tool_dir, package_name), main.py:50-76
_load_tool_as_package(d, package_name, sm, ex) ==
  IF ~fs[d].hasInit \/ ~fs[d].hasMain
  THEN [ret |-> NoModule, raised |-> "ok", sys |-> sm, executed |-> ex]
  ELSE LET sm1 == Put(sm, package_name, <<d, "__init__.py">>)
           e1 == ExecResult(ex, d, "__init__.py", fs[d].initExec)
       IN IF e1.raised # "ok"
          THEN [ret |-> NoModule, raised |-> e1.raised, sys |-> sm1, executed |-> e1.executed]
          ELSE LET sm2 == Put(sm1, package_name \o DotMain, <<d, "main.py">>)
                   e2 == ExecResult(e1.executed, d, "main.py", fs[d].mainExec)
               IN IF e2.raised # "ok"
                  THEN [ret |-> NoModule, raised |-> e2.raised, sys |-> sm2,
                        executed |-> e2.executed]
                  ELSE [ret |-> [none |-> FALSE, dir |-> d, app |-> fs[d].app], raised |-> "ok",
                        sys |-> sm2, executed |-> e2.executed]

\* _load_tool_as_module(tool_dir, module_name), main.py:79-90
_load_tool_as_module(d, module_name, sm, ex) ==
  IF ~fs[d].hasMain
  THEN [ret |-> NoModule, raised |-> "ok", sys |-> sm, executed |-> ex]
  ELSE LET sm1 == Put(sm, module_name, <<d, "main.py">>)
           e1 == ExecResult(ex, d, "main.py", fs[d].mainExec)
       IN IF e1.raised # "ok"
          THEN [ret |-> NoModule, raised |-> e1.raised, sys |-> sm1, executed |-> e1.executed]
          ELSE [ret |-> [none |-> FALSE, dir |-> d, app |-> fs[d].app], raised |-> "ok",
                sys |-> sm1, executed |-> e1.executed]

----------------------------------------------------------------------------
(* Discovery, main.py:93-142 *)

Slash == <<"/">>

\* the test for "from ." alone
UsePackageFromOnly(d) ==
  \/ fs[d].hasInit
  \/ fs[d].readable /\ Contains(fs[d].content, FromDot)

\* main.py:107-114: package marker, or the text of main.py holds "from ." or
\* "import ."; a text that cannot be read leaves use_package False
UsePackage(d) ==
  \/ fs[d].hasInit
  \/ /\ fs[d].readable
     /\ (Contains(fs[d].content, FromDot) \/ Contains(fs[d].content, ImportDot))

\* main.py:119-124
LoadTool(d, up, sm, ex) ==
  IF up THEN _load_tool_as_package(d, Agg \o _sanitize(d), sm, ex)
  ELSE _load_tool_as_module(d, Tool \o _sanitize(d) \o UnderMain, sm, ex)

\* main.py:97-118: next directory; skipped without main.py, else the strategy
\* is chosen and logged
Inspect ==
  /\ pc = "discover" /\ phase = "inspect" /\ todo # <<>>
  /\ LET d == Head(todo) IN
       IF ~fs[d].hasMain
       THEN /\ todo' = Tail(todo)
            /\ UNCHANGED <<phase, use_package, strategy, tpending>>
       ELSE /\ use_package' = UsePackage(d)
            /\ strategy' = Put(strategy, d, IF UsePackage(d) THEN "package" ELSE "module")
            /\ phase' = "load"
            /\ todo' = todo
  /\ UNCHANGED <<fs, pc, executed, sysModules, results, mountIdx, mounted, routes, cached,
                 builds, calls, response, tpc, tschema, tret, tpending>>

\* the loader call without its try/except
CaughtNothing(raised) == FALSE

\* main.py:125-127: `except Exception` around the loader call
Caught(raised) == raised = "Exception"

\* the check of the loader's result alone
DiscoveredAnyModule(r) == ~r.ret.none

\* main.py:129-136: the module is kept when the loader returned one and it has
\* an attribute `app` that is not None
Discovered(r) == ~r.ret.none /\ r.ret.app.kind # "none"

\* main.py:119-139: load the directory, keep (prefix, app) when it has an app,
\* otherwise continue; an exception that is not caught ends the process
Load ==
  /\ pc = "discover" /\ phase = "load"
  /\ LET d == Head(todo)
         r == LoadTool(d, use_package, sysModules, executed)
     IN /\ sysModules' = r.sys
        /\ executed' = r.executed
        /\ IF r.raised # "ok" /\ ~Caught(r.raised)
           THEN /\ pc' = "aborted"
                /\ UNCHANGED <<todo, phase, results, tpending>>
           ELSE /\ pc' = pc
                /\ todo' = Tail(todo)
                /\ phase' = "inspect"
                /\ IF r.raised = "ok" /\ Discovered(r)
                   THEN results' = Append(results, [prefix |-> Slash \o d, app |-> r.ret.app])
                   ELSE results' = results
  /\ UNCHANGED <<fs, use_package, strategy, mountIdx, mounted, routes, cached, builds, calls,
                 response, tpc, tschema, tret, tpending>>

\* the handler a route leads to: a route FastAPI() sets up itself, a gateway
\* function, or the i-th handler of a tool's app
BuiltinEndpoint(name) == [kind |-> "builtin", module |-> <<>>, name |-> name, index |-> 0]
GatewayEndpoint(name) == [kind |-> "gateway", module |-> <<>>, name |-> name, index |-> 0]
ToolEndpoint(module, name, i) == [kind |-> "tool", module |-> module, name |-> name, index |-> i]
NoEndpoint == [kind |-> "none", module |-> <<>>, name |-> <<>>, index |-> 0]

\* app = FastAPI(title, version, description), main.py:145-149: with the default
\* openapi_url, docs_url and redoc_url the constructor adds these routes, which
\* are not part of the schema; its openapi route calls app.openapi()
BuiltinDecl ==
  <<<<<<"/","o","p","e","n","a","p","i",".","j","s","o","n">>, <<"o","p","e","n","a","p","i">>>>,
     <<<<"/","d","o","c","s">>, <<"s","w","a","g","g","e","r","_","u","i","_","h","t","m","l">>>>,
     <<<<"/","d","o","c","s","/","o","a","u","t","h","2","-","r","e","d","i","r","e","c","t">>, <<"s","w","a","g","g","e","r","_","u","i","_","r","e","d","i","r","e","c","t">>>>,
     <<<<"/","r","e","d","o","c">>, <<"r","e","d","o","c","_","h","t","m","l">>>>>>

BuiltinRoutes ==
  [i \in 1..Len(BuiltinDecl) |->
     [path |-> BuiltinDecl[i][1], method |-> "GET", name |-> BuiltinDecl[i][2],
      operation_id |-> <<>>, tags |-> {}, in_schema |-> FALSE,
      endpoint |-> BuiltinEndpoint(BuiltinDecl[i][2])]]

\* main.py:141-163: discover_tools returns, the FastAPI app is created
DiscoverDone ==
  /\ pc = "discover" /\ phase = "inspect" /\ todo = <<>>
  /\ pc' = "mount"
  /\ mountIdx' = 1
  /\ routes' = BuiltinRoutes
  /\ UNCHANGED <<fs, todo, phase, use_package, strategy, executed, sysModules, results,
                 mounted, cached, builds, calls, response, tpc, tschema, tret, tpending>>

----------------------------------------------------------------------------
(* Mounting, main.py:164-169 *)

\* str.strip("/")
RECURSIVE LStrip(_)
LStrip(s) == IF s # <<>> /\ Head(s) = "/" THEN LStrip(Tail(s)) ELSE s
RECURSIVE RStrip(_)
RStrip(s) == IF s # <<>> /\ s[Len(s)] = "/" THEN RStrip(SubSeq(s, 1, Len(s) - 1)) ELSE s
Strip(s) == RStrip(LStrip(s))

\* app.include_router(sub_app.router, prefix=prefix, tags=[prefix.strip("/")])
IncludeRouter(table, prefix) ==
  [i \in 1..Len(table) |->
     [path |-> prefix \o table[i].path, method |-> table[i].method,
      name |-> table[i].name, operation_id |-> table[i].operation_id,
      tags |-> {Strip(prefix)}, in_schema |-> TRUE, endpoint |-> ToolEndpoint(Strip(prefix), table[i].name, i)]]

\* one turn of the loop: the routes are added and "Mounted router" is logged;
\* an app without .router raises, which is caught and logged
Mount ==
  /\ pc = "mount" /\ mountIdx <= Len(results)
  /\ LET item == results[mountIdx] IN
       IF item.app.kind = "fastapi"
       THEN /\ routes' = routes \o IncludeRouter(item.app.routes, item.prefix)
            /\ mounted' = Append(mounted, item.prefix)
       ELSE UNCHANGED <<routes, mounted, tpending>>
  /\ mountIdx' = mountIdx + 1
  /\ UNCHANGED <<fs, pc, todo, phase, use_package, strategy, executed, sysModules, results,
                 cached, builds, calls, response, tpc, tschema, tret, tpending>>

----------------------------------------------------------------------------
(* Front door, main.py:172-236 *)

\* path and handler of the @app.get routes, in the order they are declared
FrontDoorDecl ==
  <<<<<<"/">>, <<"i","n","d","e","x">>>>,
     <<<<"/","o","p","e","n","a","p","i","-","m","e","r","g","e","d",".","j","s","o","n">>, <<"o","p","e","n","a","p","i","_","m","e","r","g","e","d">>>>,
     <<<<"/","o","p","e","n","a","p","i",".","j","s","o","n">>, <<"o","p","e","n","a","p","i">>>>,
     <<<<"/","d","o","c","s">>, <<"d","o","c","s">>>>,
     <<<<"/","d","o","c","s","-","m","e","r","g","e","d">>, <<"d","o","c","s","_","m","e","r","g","e","d">>>>,
     <<<<"/","r","e","d","o","c">>, <<"r","e","d","o","c">>>>,
     <<<<"/","r","e","d","o","c","-","m","e","r","g","e","d">>, <<"r","e","d","o","c","_","m","e","r","g","e","d">>>>,
     <<<<"/","h","e","a","l","t","h">>, <<"h","e","a","l","t","h">>>>,
     <<<<"/","t","i","m","e">>, <<"t","i","m","e">>>>>>

FrontDoor ==
  [i \in 1..Len(FrontDoorDecl) |->
     [path |-> FrontDoorDecl[i][1], method |-> "GET", name |-> FrontDoorDecl[i][2],
      operation_id |-> <<>>, tags |-> {}, in_schema |-> TRUE, endpoint |-> GatewayEndpoint(FrontDoorDecl[i][2])]]

\* main.py:172-236, 270: the decorators run after the mount loop, so the
\* gateway's own routes come last in app.routes
RegisterFrontDoor ==
  /\ pc = "mount" /\ mountIdx > Len(results)
  /\ routes' = routes \o FrontDoor
  /\ pc' = "serving"
  /\ UNCHANGED <<fs, todo, phase, use_package, strategy, executed, sysModules, results,
                 mountIdx, mounted, cached, builds, calls, response, tpc, tschema, tret, tpending>>

----------------------------------------------------------------------------
(* Schema aggregator, main.py:240-267 *)

MethodLower == [GET |-> <<"g","e","t">>]
Root == <<"r","o","o","t">>
DunderSep == <<"_","_">>

\* str.split(sep, maxsplit) for a one-character sep; maxsplit -1: no limit
RECURSIVE Split(_, _, _)
Split(s, sep, maxsplit) ==
  IF maxsplit = 0 \/ ~(\E i \in 1..Len(s) : s[i] = sep) THEN <<s>>
  ELSE LET i == CHOOSE k \in 1..Len(s) : s[k] = sep /\ \A j \in 1..(k - 1) : s[j] # sep
       IN <<SubSeq(s, 1, i - 1)>> \o Split(SubSeq(s, i + 1, Len(s)), sep, maxsplit - 1)

\* fastapi's default operation id: name + path with every non-word character
\* replaced by "_", then "_" + the method in lower case
GenerateUniqueId(r) ==
  LET raw == r.name \o r.path
  IN [i \in 1..Len(raw) |-> IF IsAlnum(raw[i]) \/ raw[i] = "_" THEN raw[i] ELSE "_"]
     \o <<"_">> \o MethodLower[r.method]

OperationId(r) == IF r.operation_id # <<>> THEN r.operation_id ELSE GenerateUniqueId(r)

\* get_openapi(..., routes=app.routes), main.py:250-255: one entry per path of
\* the routes that are part of the schema,
\* one operation per method; a later route with the same path and method
\* replaces the earlier operation
GetOpenapi(all) ==
  LET InSchema(r) == r.in_schema
      rs == SelectSeq(all, InSchema)
      ps == {rs[i].path : i \in 1..Len(rs)}
      ms(p) == {rs[i].method : i \in {j \in 1..Len(rs) : rs[j].path = p}}
      last(p, m) == CHOOSE i \in 1..Len(rs) :
                      /\ rs[i].path = p /\ rs[i].method = m
                      /\ \A j \in (i + 1)..Len(rs) : ~(rs[j].path = p /\ rs[j].method = m)
  IN [type |-> "dict", openapi |-> "3.1.0",
      info |-> [title |-> "Unified Tools API", version |-> "1.0.0"],
      paths |-> [p \in ps |-> [m \in ms(p) |-> [operationId |-> OperationId(rs[last(p, m)])]]]]

\* main.py:260
Seg(path) ==
  IF StartsWith(path, Slash) /\ Len(Split(path, "/", -1)) > 1
  THEN Split(path, "/", 2)[2]
  ELSE Root

\* main.py:261-263 for one path item
RewriteItem(path, item) ==
  [m \in DOMAIN item |->
     IF item[m].operationId # <<>>
     THEN [operationId |-> Seg(path) \o DunderSep \o item[m].operationId]
     ELSE item[m]]

\* main.py:257-263
Rewrite(schema) ==
  [schema EXCEPT !.paths = [p \in DOMAIN schema.paths |-> RewriteItem(p, schema.paths[p])]]

\* a test that never finds the cache
NeverTruthy(v) == FALSE

\* `if _cached_openapi:` main.py:245: None and an empty dict are falsy
Truthy(v) == v.type = "dict" /\ DOMAIN v # {"type"}

----------------------------------------------------------------------------
(* Serving: one request handled from start to end *)

\* the router takes the first route whose path and method match
Dispatch(rs, path, method) ==
  LET hits == {i \in 1..Len(rs) : rs[i].path = path /\ rs[i].method = method}
  IN IF hits = {} THEN NoEndpoint
     ELSE rs[CHOOSE i \in hits : \A j \in hits : i <= j].endpoint

NotFound(path) == [path |-> path, status |-> 404, handler |-> NoEndpoint]

IndexName == FrontDoorDecl[1][2]
\* the handlers that return app.openapi(): openapi_merged() and openapi() of
\* main.py:189-198, and the openapi route of FastAPI()
IsSchemaHandler(h) ==
  \/ h.kind = "gateway" /\ h.name \in {FrontDoorDecl[2][2], FrontDoorDecl[3][2]}
  \/ h.kind = "builtin" /\ h.name = BuiltinDecl[1][2]

\* index(), main.py:172-186
Index ==
  [message |-> "Unified Tools API",
   tools |-> [i \in 1..Len(results) |->
                [name |-> Strip(results[i].prefix), base_url |-> results[i].prefix,
                 docs |-> "/docs", openapi |-> "/openapi.json"]]]

\* how many times the schema is asked for
MaxCalls == 2

RequestPaths ==
  {FrontDoorDecl[1][1], FrontDoorDecl[2][1], FrontDoorDecl[3][1], FrontDoorDecl[8][1]}
  \cup {Slash \o d \o SubX : d \in {NameA, NameHealth}}
  \cup {<<"/","z">>}

\* a GET request for a path answered by a handler that does not touch the
\* schema cache: index, health, time, the documentation pages, a tool's
\* handler, or not found
Request(path) ==
  /\ pc = "serving"
  /\ LET h == Dispatch(routes, path, "GET") IN
       /\ ~IsSchemaHandler(h)
       /\ response' =
            IF h.kind = "none" THEN NotFound(path)
            ELSE IF h.kind = "gateway" /\ h.name = IndexName
            THEN [path |-> path, status |-> 200, handler |-> h, body |-> Index]
            ELSE [path |-> path, status |-> 200, handler |-> h]
  /\ UNCHANGED <<fs, pc, todo, phase, use_package, strategy, executed, sysModules, results,
                 mountIdx, mounted, routes, cached, builds, calls, tpc, tschema, tret, tpending>>

\* openapi() / openapi_merged(), main.py:189-198, calling custom_openapi,
\* main.py:243-267, run from start to end
SchemaRequest(path) ==
  /\ pc = "serving" /\ calls < MaxCalls
  /\ LET h == Dispatch(routes, path, "GET") IN
       /\ IsSchemaHandler(h)
       /\ IF Truthy(cached)
          THEN /\ response' = [path |-> path, status |-> 200, handler |-> h, body |-> cached]
               /\ UNCHANGED <<cached, builds, tpending>>
          ELSE /\ cached' = Rewrite(GetOpenapi(routes))
               /\ builds' = builds + 1
               /\ response' = [path |-> path, status |-> 200, handler |-> h, body |-> cached']
  /\ calls' = calls + 1
  /\ UNCHANGED <<fs, pc, todo, phase, use_package, strategy, executed, sysModules, results,
                 mountIdx, mounted, routes, tpc, tschema, tret, tpending>>

----------------------------------------------------------------------------
(* Specification: startup, then requests one after another *)

\* worker threads of the server: openapi() and openapi_merged() are plain
\* `def` handlers, which the server runs in its thread pool
NumThreads == 2
Threads == 1..NumThreads

Init ==
  /\ fs \in FileSystems
  /\ pc = "discover"
  /\ todo = SortedSeq({d \in DOMAIN fs : fs[d].isDir})
  /\ phase = "inspect"
  /\ use_package = FALSE
  /\ strategy = <<>>
  /\ executed = {}
  /\ sysModules = <<>>
  /\ results = <<>>
  /\ mountIdx = 1
  /\ mounted = <<>>
  /\ routes = <<>>
  /\ cached = None
  /\ builds = 0
  /\ calls = 0
  /\ response = None
  /\ tpc = [t \in Threads |-> "idle"]
  /\ tschema = [t \in Threads |-> None]
  /\ tpending = [t \in Threads |-> <<>>]
  /\ tret = [t \in Threads |-> None]

Next ==
  \/ Inspect
  \/ Load
  \/ DiscoverDone
  \/ Mount
  \/ RegisterFrontDoor
  \/ \E p \in RequestPaths : Request(p)
  \/ \E p \in RequestPaths : SchemaRequest(p)

Spec == Init /\ [][Next]_vars

----------------------------------------------------------------------------
(* Schema requests handled by concurrent threads: custom_openapi, one step *)
(* per statement that reads or writes _cached_openapi                      *)

\* main.py:189-198: the request reaches openapi() or openapi_merged()
TStart(t, path) ==
  /\ pc = "serving" /\ tpc[t] = "idle"
  /\ LET h == Dispatch(routes, path, "GET") IN
       IsSchemaHandler(h)
  /\ tpc' = [tpc EXCEPT ![t] = "check"]
  /\ UNCHANGED <<fs, pc, todo, phase, use_package, strategy, executed, sysModules, results,
                 mountIdx, mounted, routes, cached, builds, calls, response, tschema, tret, tpending>>

\* main.py:245-247: return the cached schema when there is one
TCheck(t) ==
  /\ tpc[t] = "check"
  /\ IF Truthy(cached)
     THEN /\ tret' = [tret EXCEPT ![t] = cached]
          /\ tpc' = [tpc EXCEPT ![t] = "done"]
     ELSE /\ tpc' = [tpc EXCEPT ![t] = "build"]
          /\ tret' = tret
  /\ UNCHANGED <<fs, pc, todo, phase, use_package, strategy, executed, sysModules, results,
                 mountIdx, mounted, routes, cached, builds, calls, response, tschema, tpending>>

\* main.py:259: list(paths.items()), the paths in the order get_openapi
\* inserted them, that of their first route
RECURSIVE PathItems(_)
PathItems(rs) ==
  IF rs = <<>> THEN <<>>
  ELSE LET before == PathItems(SubSeq(rs, 1, Len(rs) - 1))
           r == rs[Len(rs)]
       IN IF ~r.in_schema \/ (\E i \in 1..Len(before) : before[i] = r.path)
          THEN before
          ELSE Append(before, r.path)

\* a build that publishes its schema before the ids are rewritten
TBuildPublishing(t) ==
  /\ tpc[t] = "build"
  /\ tschema' = [tschema EXCEPT ![t] = GetOpenapi(routes)]
  /\ tpending' = [tpending EXCEPT ![t] = PathItems(routes)]
  /\ cached' = GetOpenapi(routes)
  /\ builds' = builds + 1
  /\ tpc' = [tpc EXCEPT ![t] = "rewrite"]
  /\ UNCHANGED <<fs, pc, todo, phase, use_package, strategy, executed, sysModules, results,
                 mountIdx, mounted, routes, calls, response, tret>>

\* main.py:250-259: get_openapi builds a new schema from app.routes, local to
\* the call, and the loop takes a list of its path items
TBuild(t) ==
  /\ tpc[t] = "build"
  /\ tschema' = [tschema EXCEPT ![t] = GetOpenapi(routes)]
  /\ tpending' = [tpending EXCEPT ![t] = PathItems(routes)]
  /\ builds' = builds + 1
  /\ tpc' = [tpc EXCEPT ![t] = "rewrite"]
  /\ UNCHANGED <<fs, pc, todo, phase, use_package, strategy, executed, sysModules, results,
                 mountIdx, mounted, routes, cached, calls, response, tret>>

\* main.py:259-263: one iteration of the loop prefixes the operation ids of one
\* path item of the call's own schema; the loop ends when the list is used up
TRewrite(t) ==
  /\ tpc[t] = "rewrite"
  /\ IF tpending[t] = <<>>
     THEN /\ tpc' = [tpc EXCEPT ![t] = "store"]
          /\ UNCHANGED <<tschema, tpending>>
     ELSE LET path == Head(tpending[t]) IN
          /\ tschema' = [tschema EXCEPT ![t].paths[path] = RewriteItem(path, tschema[t].paths[path])]
          /\ tpending' = [tpending EXCEPT ![t] = Tail(tpending[t])]
          /\ tpc' = tpc
  /\ UNCHANGED <<fs, pc, todo, phase, use_package, strategy, executed, sysModules, results,
                 mountIdx, mounted, routes, cached, builds, calls, response, tret>>

\* main.py:265: the schema is stored
TStore(t) ==
  /\ tpc[t] = "store"
  /\ cached' = tschema[t]
  /\ tpc' = [tpc EXCEPT ![t] = "return"]
  /\ UNCHANGED <<fs, pc, todo, phase, use_package, strategy, executed, sysModules, results,
                 mountIdx, mounted, routes, builds, calls, response, tschema, tpending, tret>>

\* main.py:267: the call returns what _cached_openapi holds now
TReturn(t) ==
  /\ tpc[t] = "return"
  /\ tret' = [tret EXCEPT ![t] = cached]
  /\ tpc' = [tpc EXCEPT ![t] = "done"]
  /\ UNCHANGED <<fs, pc, todo, phase, use_package, strategy, executed, sysModules, results,
                 mountIdx, mounted, routes, cached, builds, calls, response, tschema, tpending>>

\* servers/ holding tools that load and mount
FileSystemsConc ==
  UNION {[S -> {[NoEntry EXCEPT !.hasMain = TRUE, !.app = [kind |-> "fastapi", routes |-> t]]
                  : t \in {TableC, TableTwo}}] : S \in SUBSET DirNames}

InitConc == Init /\ fs \in FileSystemsConc

NextConc ==
  \/ Inspect
  \/ Load
  \/ DiscoverDone
  \/ Mount
  \/ RegisterFrontDoor
  \/ \E t \in Threads, p \in RequestPaths : TStart(t, p)
  \/ \E t \in Threads : TCheck(t)
  \/ \E t \in Threads : TBuild(t)
  \/ \E t \in Threads : TRewrite(t)
  \/ \E t \in Threads : TStore(t)
  \/ \E t \in Threads : TReturn(t)

SpecConc == InitConc /\ [][NextConc]_vars

----------------------------------------------------------------------------
(* What the claims speak of *)

Dirs == {d \in DOMAIN fs : fs[d].isDir}
Candidates == {d \in Dirs : fs[d].hasMain}
PrefixOf(d) == Slash \o d

\* main.py of d, run as the code of its directory, defines a FastAPI `app`
ExposesApp(d) ==
  /\ fs[d].hasMain
  /\ fs[d].hasInit => fs[d].initExec = "ok"
  /\ fs[d].mainExec = "ok"
  /\ fs[d].app.kind = "fastapi"

PrefixesOf(S) == [i \in 1..Cardinality(S) |-> PrefixOf(SortedSeq(S)[i])]
DiscoveredPrefixes == [i \in 1..Len(results) |-> results[i].prefix]
LoadedDirs == {d \in Candidates : \E i \in 1..Len(results) : results[i].prefix = PrefixOf(d)}
FailedDirs == Candidates \ LoadedDirs

\* a schema has been stored in _cached_openapi
HasSchema == cached # None

IsIndexResponse ==
  /\ "handler" \in DOMAIN response
  /\ response.handler.kind = "gateway" /\ response.handler.name = IndexName
IsSchemaResponse == "handler" \in DOMAIN response /\ IsSchemaHandler(response.handler)
ListedNames == {response.body.tools[i].name : i \in 1..Len(response.body.tools)}

Under(path, prefix) == path = prefix \/ StartsWith(path, prefix \o Slash)
FrontDoorPaths == {FrontDoor[i].path : i \in 1..Len(FrontDoor)}
                  \cup {BuiltinRoutes[i].path : i \in 1..Len(BuiltinRoutes)}

\* the routes of the routing tree that carry the tag of directory d
RoutesOf(d) == LET Tagged(r) == r.tags = {d} IN SelectSeq(routes, Tagged)

----------------------------------------------------------------------------
\* C1: when every directory under servers/ has a main.py that exposes a
\* FastAPI app, whatever its package marker and import syntax, startup ends with
\* exactly one mounted prefix per directory, "/" + the directory name.
C1_AllMounted ==
  (pc = "serving" /\ \A d \in Dirs : ExposesApp(d))
    => /\ DiscoveredPrefixes = PrefixesOf(Dirs)
       /\ mounted = PrefixesOf(Dirs)

----------------------------------------------------------------------------
\* the failures C2 names: an import or initialisation error (an Exception
\* raised by __init__.py or main.py), or main.py defining no `app`
FailsToLoad(d) ==
  /\ d \in Candidates
  /\ \/ fs[d].hasInit /\ fs[d].initExec = "Exception"
     \/ (fs[d].hasInit => fs[d].initExec = "ok") /\ fs[d].mainExec = "Exception"
     \/ /\ fs[d].hasInit => fs[d].initExec = "ok"
        /\ fs[d].mainExec = "ok"
        /\ fs[d].app.kind = "none"

OneFailure == Cardinality(FailedDirs) = 1 /\ \A d \in FailedDirs : FailsToLoad(d)

\* the routes d has in the tree depend on d's own directory only
MountedAsAlone(d) ==
  /\ RoutesOf(d) = IF fs[d].app.kind = "fastapi"
                   THEN IncludeRouter(fs[d].app.routes, PrefixOf(d)) ELSE <<>>
  /\ fs[d].app.kind = "fastapi" =>
       \A i \in 1..Len(fs[d].app.routes) :
          Dispatch(routes, PrefixOf(d) \o fs[d].app.routes[i].path, "GET")
            = ToolEndpoint(d, fs[d].app.routes[i].name, i)

\* C2: a module that fails to load with an import error, an initialisation
\* error or no `app` never stops startup; when it is the only one of the N
\* candidates that failed, GET / lists exactly the other N-1 in sorted order and
\* each of them has its own routes under its own prefix, wherever the failing
\* module falls in the order.
C2_OneFailureIsolated ==
  /\ pc = "aborted" => ~FailsToLoad(Head(todo))
  /\ (pc = "serving" /\ OneFailure) =>
        /\ Len(results) = Cardinality(Candidates) - 1
        /\ IsIndexResponse =>
             [i \in 1..Len(response.body.tools) |-> response.body.tools[i].base_url]
               = PrefixesOf(Candidates \ FailedDirs)
        /\ \A d \in Candidates \ FailedDirs : MountedAsAlone(d)

C2_Witness ==
  /\ pc = "serving" /\ OneFailure
  /\ Candidates = DirNames /\ FailedDirs = {NameAB}
  /\ IsIndexResponse /\ Len(response.body.tools) = 2
  /\ \A d \in {NameA, NameHealth} : fs[d].app.kind = "fastapi"

----------------------------------------------------------------------------
\* the candidates whose load failed: no module was kept for them, or they are
\* of a kind that fails (an Exception while loading, no `app`)
LoadFailed == {d \in Candidates : d \in FailedDirs \/ FailsToLoad(d)}

RequestUnder(d) == "path" \in DOMAIN response /\ Under(response.path, PrefixOf(d))

\* C3 as claimed: a module whose load failed has no route under its prefix in
\* the routing tree, is not named by GET /, has no path under its prefix in the
\* merged schema, and every request under its prefix gets not found.
C3_NothingUnderPrefix ==
  pc = "serving" =>
    \A d \in LoadFailed :
      /\ \A i \in 1..Len(routes) : ~Under(routes[i].path, PrefixOf(d))
      /\ IsIndexResponse => d \notin ListedNames
      /\ HasSchema => \A p \in DOMAIN cached.paths : ~Under(p, PrefixOf(d))
      /\ RequestUnder(d) => response = NotFound(response.path)

\* C3 as amended: a module whose load failed contributes nothing. No route of
\* the tree carries its tag or leads to a handler of it, GET / does not name
\* it, and the only routes and schema paths under its prefix are those the
\* gateway declares itself (a directory named like a front-door path, such as
\* health); a request under its prefix for any other path gets not found, and
\* one for a gateway path is answered by the gateway.
C3_FailedContributesNothing ==
  pc = "serving" =>
    \A d \in LoadFailed :
      /\ RoutesOf(d) = <<>>
      /\ \A i \in 1..Len(routes) :
           Under(routes[i].path, PrefixOf(d))
             => routes[i].endpoint.kind \in {"gateway", "builtin"}
      /\ IsIndexResponse => d \notin ListedNames
      /\ HasSchema =>
           \A p \in DOMAIN cached.paths : Under(p, PrefixOf(d)) => p \in FrontDoorPaths
      /\ RequestUnder(d) =>
           IF response.path \in FrontDoorPaths
           THEN response.handler.kind \in {"gateway", "builtin"}
           ELSE response = NotFound(response.path)

C3_Witness ==
  /\ pc = "serving"
  /\ NameA \in LoadFailed /\ NameHealth \in LoadedDirs
  /\ HasSchema
  /\ response = NotFound(PrefixOf(NameA) \o SubX)

----------------------------------------------------------------------------
\* the operations of a schema: path and method
Operations(schema) ==
  UNION {{<<p, m>> : m \in DOMAIN schema.paths[p]} : p \in DOMAIN schema.paths}

\* C4: in the merged schema no two operations with distinct path+method have
\* the same rewritten operation id, whatever the directory names and the
\* operation ids the modules chose.
C4_UniqueOperationIds ==
  HasSchema =>
    \A o1, o2 \in Operations(cached) :
      o1 # o2 => cached.paths[o1[1]][o1[2]].operationId # cached.paths[o2[1]][o2[2]].operationId

----------------------------------------------------------------------------
\* the route an operation of the schema describes
SchemaRoute(p, m) ==
  LET hits == {i \in 1..Len(routes) :
                 routes[i].in_schema /\ routes[i].path = p /\ routes[i].method = m}
  IN routes[CHOOSE i \in hits : \A j \in hits : j <= i]

\* first non-empty segment of a path
FirstSegment(p) ==
  LET parts == Split(p, "/", -1)
      ne == {i \in 1..Len(parts) : parts[i] # <<>>}
  IN parts[CHOOSE i \in ne : \A j \in ne : i <= j]

\* C5: every rewritten operation id is segment + "__" + original id, where
\* segment is "root" for the gateway's own front-door routes and the first
\* non-empty path segment for a mounted module's route.
C5_SegmentPrefix ==
  HasSchema =>
    \A o \in Operations(cached) :
      LET r == SchemaRoute(o[1], o[2])
          segment == IF r.endpoint.kind = "gateway" THEN Root ELSE FirstSegment(o[1])
      IN cached.paths[o[1]][o[2]].operationId = segment \o DunderSep \o OperationId(r)

----------------------------------------------------------------------------
\* C6: with requests handled one after another the schema is built at most
\* once: a call that finds no stored schema builds and stores one, every later
\* call builds nothing, leaves the stored schema as it is and returns it, so two
\* calls in a row return the same value.
C6_BuiltOnce ==
  [][ /\ builds' <= 1
      /\ HasSchema => (cached' = cached /\ builds' = builds)
      /\ calls' # calls => (IsSchemaResponse' /\ response'.body = cached' /\ (cached' # None))
    ]_vars

C6_Witness ==
  /\ calls = 2 /\ builds = 1
  /\ IsSchemaResponse /\ response.path = FrontDoorDecl[2][1]
  /\ response.body = cached

----------------------------------------------------------------------------
\* C7: when schema requests are handled by concurrent threads before a schema
\* is stored, at most one of them builds the schema.
C7_GuardedFirstBuild == builds <= 1

----------------------------------------------------------------------------
\* C8: GET / lists exactly the modules that were mounted: name and base_url of
\* every module whose router was included, and no module whose include_router
\* failed.
C8_ListingIsMounted ==
  IsIndexResponse =>
    [i \in 1..Len(response.body.tools) |->
        <<response.body.tools[i].name, response.body.tools[i].base_url>>]
      = [i \in 1..Len(mounted) |-> <<Strip(mounted[i]), mounted[i]>>]

----------------------------------------------------------------------------
\* texts of main.py that hold relative-import syntax
RelativeImportTexts == {TextFromDot, TextImportDot}

PackageExpected(d) ==
  fs[d].hasInit \/ (fs[d].readable /\ fs[d].content \in RelativeImportTexts)

----------------------------------------------------------------------------
\* C10: no failure of a module's load leaves the load step: startup never
\* aborts.
C10_LoadNeverRaises == pc # "aborted"

----------------------------------------------------------------------------
PackageName(d) == Agg \o _sanitize(d)

\* the load step of d is over
LoadOver(d) ==
  d \in DOMAIN strategy /\ ~(pc = "discover" /\ phase = "load" /\ Head(todo) = d)

\* C11: a directory chosen for the package strategy whose main.py exists is
\* loaded, not skipped: a package rooted at the directory is registered under
\* agg_<name>, and when the package initialises, main.py is registered as
\* agg_<name>.main and executed, whether the strategy came from __init__.py or
\* from relative-import syntax.
C11_PackageThenMain ==
  \A d \in DOMAIN strategy :
    (strategy[d] = "package" /\ fs[d].hasMain /\ LoadOver(d)) =>
      /\ PackageName(d) \in DOMAIN sysModules
      /\ sysModules[PackageName(d)][1] = d
      /\ (fs[d].hasInit => fs[d].initExec = "ok") =>
           /\ (PackageName(d) \o DotMain) \in DOMAIN sysModules
           /\ <<d, "main.py">> \in executed

----------------------------------------------------------------------------
(* Startup over directory names that meet in _sanitize or in a front-door  *)
(* path, and a tool route declared with the empty sub-path                 *)

NameDash == <<"a","-","b">>
NameUnder == <<"a","_","b">>

\* @app.get("") in a tool: mounted under "/<dir>" the route's path is the
\* prefix itself
TableEmpty == << [path |-> <<>>, method |-> "GET", name |-> NameF, operation_id |-> <<>>] >>

FileSystemsNames ==
  UNION {[S -> {NoEntry,
                [NoEntry EXCEPT !.hasMain = TRUE, !.app = GoodApp],
                [NoEntry EXCEPT !.hasMain = TRUE, !.app = [kind |-> "fastapi", routes |-> TableEmpty]],
                [NoEntry EXCEPT !.hasMain = TRUE, !.hasInit = TRUE, !.app = GoodApp]}]
           : S \in SUBSET {NameDash, NameUnder, NameHealth}}

InitNames ==
  /\ fs \in FileSystemsNames
  /\ pc = "discover"
  /\ todo = SortedSeq({d \in DOMAIN fs : fs[d].isDir})
  /\ phase = "inspect"
  /\ use_package = FALSE
  /\ strategy = <<>>
  /\ executed = {}
  /\ sysModules = <<>>
  /\ results = <<>>
  /\ mountIdx = 1
  /\ mounted = <<>>
  /\ routes = <<>>
  /\ cached = None
  /\ builds = 0
  /\ calls = 0
  /\ response = None
  /\ tpc = [t \in Threads |-> "idle"]
  /\ tschema = [t \in Threads |-> None]
  /\ tpending = [t \in Threads |-> <<>>]
  /\ tret = [t \in Threads |-> None]

NextNames ==
  \/ Inspect
  \/ Load
  \/ DiscoverDone
  \/ Mount
  \/ RegisterFrontDoor
  \/ \E p \in RequestPaths : Request(p)

SpecNames == InitNames /\ [][NextNames]_vars

----------------------------------------------------------------------------
\* C12: no two directories are registered under the same sys.modules name, so
\* every file that was registered and executed still has its own entry: no
\* later load has overwritten it.
C12_RegistryUnique ==
  \A e \in executed : \E k \in DOMAIN sysModules : sysModules[k] = e

----------------------------------------------------------------------------
HealthPath == FrontDoorDecl[8][1]
HealthName == FrontDoorDecl[8][2]

\* C13: whatever modules are mounted, GET /health is answered by the gateway's
\* own health handler.
C13_HealthIsGateway ==
  ("path" \in DOMAIN response /\ response.path = HealthPath) =>
     /\ response.status = 200
     /\ response.handler = GatewayEndpoint(HealthName)

----------------------------------------------------------------------------
\* every operation the routes declare is in the schema, its id prefixed once
CompletelyRewritten(schema) ==
  /\ DOMAIN schema.paths = {routes[i].path : i \in {j \in 1..Len(routes) : routes[j].in_schema}}
  /\ \A o \in Operations(schema) :
       schema.paths[o[1]][o[2]].operationId
         = Seg(o[1]) \o DunderSep \o OperationId(SchemaRoute(o[1], o[2]))

\* C14: under any interleaving of concurrent schema requests, the stored schema
\* and every schema a call of custom_openapi has returned are completely
\* rewritten: every operation id is the segment prefix, "__" and the original
\* id, never the bare original and never prefixed twice.
C14_ReturnedComplete ==
  /\ cached # None => CompletelyRewritten(cached)
  /\ \A t \in Threads : tret[t] # None => CompletelyRewritten(tret[t])

\* one call has returned while another, which also built a schema, has
\* prefixed some of its path items and not yet the others
C14_Witness ==
  \E t1, t2 \in Threads :
    /\ t1 # t2
    /\ tpc[t1] = "done" /\ tret[t1] # None
    /\ builds = 2
    /\ tpc[t2] = "rewrite"
    /\ tpending[t2] # <<>> /\ Len(tpending[t2]) < Len(PathItems(routes))
    /\ tschema[t2] # cached

====
